---- MODULE Spec2Model ----
(***************************************************************************)
(* FastOctree: Octree::new and OctreeCell::build_recursively (src/lib.rs). *)
(* The recursion of build_recursively is a stack of frames, one per active *)
(* call; cells and payload vectors live in the two arenas, in allocation   *)
(* order.  A volume reference (&dyn Volume) is the index of the volume in  *)
(* the input vector.  IVec3 components are i32; the coordinates of the     *)
(* inputs stay far from the i32 limits, so that no sum or difference the   *)
(* code computes leaves i32, and they are written as integers.             *)
(***************************************************************************)
EXTENDS Integers, Sequences, FiniteSets

\* ------------------------------------------------------------------ bounds

\* Longest input vector.
MaxVolumes == 9

\* Deepest chain of active build_recursively calls the stack holds.
MaxDepth == 6

\* ------------------------------------------------------------------ IVec3

Axes == 1..3

ZERO == <<0, 0, 0>>

VAdd(a, b) == [k \in Axes |-> a[k] + b[k]]

VSub(a, b) == [k \in Axes |-> a[k] - b[k]]

VMul(a, b) == [k \in Axes |-> a[k] * b[k]]

\* IVec3::min and IVec3::max: componentwise.
IMin(a, b) == [k \in Axes |-> IF a[k] <= b[k] THEN a[k] ELSE b[k]]

IMax(a, b) == [k \in Axes |-> IF a[k] >= b[k] THEN a[k] ELSE b[k]]

\* Rust's % on i32: the remainder takes the sign of the dividend.
Rem(a, b) == IF a >= 0 THEN a % b ELSE -((-a) % b)

\* i32::div_euclid by a positive divisor: the quotient is rounded down.
DivEuclid(a, b) == IF a >= 0 THEN a \div b ELSE -(((-a) + b - 1) \div b)

\* ------------------------------------------------------------------ inputs

\* A Volume is its inclusive min and max corner, min <= max on every axis
\* (the contract of the Volume trait's implementors).
Box(lo, hi) == [min |-> lo, max |-> hi]

Boxes ==
    { Box(<<0, 0, 0>>, <<1, 1, 1>>),
      Box(<<5, 5, 5>>, <<6, 6, 6>>),
      Box(<<0, 0, 0>>, <<3, 3, 3>>),
      Box(<<-1, -1, -1>>, <<1, 1, 1>>),
      Box(<<-3, -2, -1>>, <<-1, -1, -1>>),
      Box(<<0, 0, 0>>, <<2, 2, 0>>),
      Box(<<0, 0, 0>>, <<0, 0, 0>>) }

Rep(b, k) == [i \in 1..k |-> b]

\* The input vectors: two runs of equal boxes and then at most one more box,
\* MaxVolumes long at most.
Inputs ==
    { Rep(b1, c[1]) \o Rep(b2, c[2]) \o Rep(b3, c[3]) :
        b1 \in Boxes, b2 \in Boxes, b3 \in Boxes,
        c \in { d \in (0..MaxVolumes) \X (0..MaxVolumes) \X (0..1) :
                  d[1] + d[2] + d[3] <= MaxVolumes } }

\* ------------------------------------------------------------------- state

VARIABLES
    volumes,            \* the caller's Vec<&dyn Volume>
    pc,                 \* "new", "building", "done", "panicked", "overflow"
    min_bound,          \* Octree::new's min_bound
    max_bound,          \* Octree::new's max_bound
    stack,              \* the active build_recursively calls, outermost first
    cell_arena,         \* the OctreeCells allocated, in order
    vec_arena,          \* the payload Vecs allocated, in order
    root_cell,          \* Octree.root_cell (an index of cell_arena), 0: none
    cell_region         \* history: the region each cell of cell_arena was built for

vars == <<volumes, pc, min_bound, max_bound, stack,
          cell_arena, vec_arena, root_cell, cell_region>>

\* ------------------------------------------------------------- Octree::new

\* The closure of the fold taking the larger component.
FoldMinStep_max(a, b) == IMax(a, b.min)

FoldMinStep(a, b) == IMin(a, b.min)

FoldMaxStep(a, b) == IMax(a, b.max)

RECURSIVE FoldMin(_, _)
FoldMin(a, vs) == IF vs = <<>> THEN a ELSE FoldMin(FoldMinStep(a, Head(vs)), Tail(vs))

RECURSIVE FoldMax(_, _)
FoldMax(a, vs) == IF vs = <<>> THEN a ELSE FoldMax(FoldMaxStep(a, Head(vs)), Tail(vs))

\* The test written for a non-negative remainder only.
IsOdd_eq1(x) == Rem(x, 2) = 1

IsOdd(x) == Rem(x, 2) # 0

RoundMin(v) == [k \in Axes |-> IF IsOdd(v[k]) THEN v[k] - 1 ELSE v[k]]

RoundMax(v) == [k \in Axes |-> IF IsOdd(v[k]) THEN v[k] + 1 ELSE v[k]]

\* debug_assert_ne!(min_bound, max_bound): the two vectors are compared whole.
AssertionFails(mn, mx) == mn = mx

\* ------------------------------------------- OctreeCell::build_recursively

Threshold == 8

\* The test with open intervals.
Overlaps_strict(cmin, cmax, v) ==
    /\ cmin[1] < v.max[1]
    /\ cmax[1] > v.min[1]
    /\ cmin[2] < v.max[2]
    /\ cmax[2] > v.min[2]
    /\ cmin[3] < v.max[3]
    /\ cmax[3] > v.min[3]

\* The test without its z axis.
Overlaps_noZ(cmin, cmax, v) ==
    /\ cmin[1] <= v.max[1]
    /\ cmax[1] >= v.min[1]
    /\ cmin[2] <= v.max[2]
    /\ cmax[2] >= v.min[2]

Overlaps(cmin, cmax, v) ==
    /\ cmin[1] <= v.max[1]
    /\ cmax[1] >= v.min[1]
    /\ cmin[2] <= v.max[2]
    /\ cmax[2] >= v.min[2]
    /\ cmin[3] <= v.max[3]
    /\ cmax[3] >= v.min[3]

VolumesInsideCell(cmin, cmax, vs) ==
    SelectSeq([i \in 1..Len(vs) |-> i], LAMBDA i : Overlaps(cmin, cmax, vs[i]))

\* The threshold compared with > .
ShouldSubdivide_gt(n) == n > Threshold

ShouldSubdivide(n) == n >= Threshold

Midpoint(cmin, cmax) == [k \in Axes |-> DivEuclid(cmax[k] + cmin[k], 2)]

\* i in 0..7
CornerOffset(i) == <<i % 2, (i \div 2) % 2, (i \div 4) % 2>>

SubregionMin(i, cmin, cmax) ==
    VAdd(cmin, VMul(CornerOffset(i), VSub(Midpoint(cmin, cmax), cmax)))

SubregionMax(i, cmin, cmax) ==
    VAdd(Midpoint(cmin, cmax), VMul(CornerOffset(i), VSub(Midpoint(cmin, cmax), cmax)))

\* The frame of a call: its arguments and volumes_inside_cell.
Call(cmin, cmax, vs) ==
    [min_bound |-> cmin,
     max_bound |-> cmax,
     volumes_inside_cell |-> VolumesInsideCell(cmin, cmax, vs),
     subregions_min |-> <<>>,
     subregions_max |-> <<>>,
     children |-> <<>>]

Top == stack[Len(stack)]

FilledCell(vec) == [kind |-> "FilledCell", vec |-> vec, children |-> <<>>]

EmptyCell(children) == [kind |-> "EmptyCell", vec |-> 0, children |-> children]

EmptyChildlessCell == [kind |-> "EmptyChildlessCell", vec |-> 0, children |-> <<>>]

\* cell_arena.alloc(cell) and the return of its reference to the caller.
Return(cell) ==
    LET id == Len(cell_arena) + 1
        n == Len(stack)
    IN /\ cell_arena' = Append(cell_arena, cell)
       /\ cell_region' = Append(cell_region,
                                [min |-> Top.min_bound, max |-> Top.max_bound])
       /\ IF n = 1
          THEN /\ stack' = <<>>
               /\ root_cell' = id
               /\ pc' = "done"
          ELSE /\ stack' = [SubSeq(stack, 1, n - 1) EXCEPT
                              ![n - 1].children = Append(@, id)]
               /\ UNCHANGED <<root_cell, pc>>

\* ----------------------------------------------------------------- actions

Init ==
    /\ volumes \in Inputs
    /\ pc = "new"
    /\ min_bound = ZERO
    /\ max_bound = ZERO
    /\ stack = <<>>
    /\ cell_arena = <<>>
    /\ vec_arena = <<>>
    /\ root_cell = 0
    /\ cell_region = <<>>

\* Octree::new in a build that compiles debug_assert_ne! in (debug_assertions
\* on): the assertion fails, before either arena exists.
NewPanics ==
    /\ pc = "new"
    /\ AssertionFails(FoldMin(ZERO, volumes), FoldMax(ZERO, volumes))
    /\ pc' = "panicked"
    /\ UNCHANGED <<volumes, min_bound, max_bound, stack, cell_arena, vec_arena,
                   root_cell, cell_region>>

\* Octree::new up to the call of build_recursively for the root: the assertion
\* holds, or the build compiles it out (debug_assertions off).
New ==
    /\ pc = "new"
    /\ min_bound' = RoundMin(FoldMin(ZERO, volumes))
    /\ max_bound' = RoundMax(FoldMax(ZERO, volumes))
    /\ stack' = <<Call(min_bound', max_bound', volumes)>>
    /\ pc' = "building"
    /\ UNCHANGED <<volumes, cell_arena, vec_arena, root_cell, cell_region>>

\* The subdivision and the call that builds child a.
Subdivide ==
    /\ pc = "building"
    /\ ShouldSubdivide(Len(Top.volumes_inside_cell))
    /\ Top.subregions_min = <<>>
    /\ Len(stack) < MaxDepth
    /\ LET n == Len(stack)
           mins == [i \in 1..8 |-> SubregionMin(i - 1, Top.min_bound, Top.max_bound)]
           maxs == [i \in 1..8 |-> SubregionMax(i - 1, Top.min_bound, Top.max_bound)]
       IN stack' = Append([stack EXCEPT ![n].subregions_min = mins,
                                        ![n].subregions_max = maxs],
                          Call(mins[1], maxs[1], volumes))
    /\ UNCHANGED <<volumes, pc, min_bound, max_bound,
                   cell_arena, vec_arena, root_cell, cell_region>>

\* The call chain is deeper than the stack holds: the process aborts.
StackOverflow ==
    /\ pc = "building"
    /\ ShouldSubdivide(Len(Top.volumes_inside_cell))
    /\ Top.subregions_min = <<>>
    /\ Len(stack) = MaxDepth
    /\ pc' = "overflow"
    /\ UNCHANGED <<volumes, min_bound, max_bound, stack,
                   cell_arena, vec_arena, root_cell, cell_region>>

\* The calls that build children b..h.
CallChild ==
    /\ pc = "building"
    /\ Top.subregions_min # <<>>
    /\ Len(Top.children) \in 1..7
    /\ LET i == Len(Top.children) + 1
       IN stack' = Append(stack, Call(Top.subregions_min[i], Top.subregions_max[i],
                                      volumes))
    /\ UNCHANGED <<volumes, pc, min_bound, max_bound,
                   cell_arena, vec_arena, root_cell, cell_region>>

AllocEmptyCell ==
    /\ pc = "building"
    /\ Top.subregions_min # <<>>
    /\ Len(Top.children) = 8
    /\ Return(EmptyCell(Top.children))
    /\ UNCHANGED <<volumes, min_bound, max_bound, vec_arena>>

AllocEmptyChildlessCell ==
    /\ pc = "building"
    /\ ~ShouldSubdivide(Len(Top.volumes_inside_cell))
    /\ Len(Top.volumes_inside_cell) = 0
    /\ Return(EmptyChildlessCell)
    /\ UNCHANGED <<volumes, min_bound, max_bound, vec_arena>>

AllocFilledCell ==
    /\ pc = "building"
    /\ ~ShouldSubdivide(Len(Top.volumes_inside_cell))
    /\ Len(Top.volumes_inside_cell) # 0
    /\ vec_arena' = Append(vec_arena, Top.volumes_inside_cell)
    /\ Return(FilledCell(Len(vec_arena) + 1))
    /\ UNCHANGED <<volumes, min_bound, max_bound>>

Next ==
    \/ NewPanics
    \/ New
    \/ Subdivide
    \/ StackOverflow
    \/ CallChild
    \/ AllocEmptyCell
    \/ AllocEmptyChildlessCell
    \/ AllocFilledCell

Spec == Init /\ [][Next]_vars

\* ------------------------------------------------------ checked properties

SetMin(S) == CHOOSE x \in S : \A y \in S : x <= y

SetMax(S) == CHOOSE x \in S : \A y \in S : x >= y

\* The zero-seeded combined bound of the input, axis by axis.
CombinedMin(k) == SetMin({0} \cup {volumes[i].min[k] : i \in DOMAIN volumes})

CombinedMax(k) == SetMax({0} \cup {volumes[i].max[k] : i \in DOMAIN volumes})

\* Two closed boxes share a point.
BoxesIntersect(r, v) ==
    \A k \in Axes :
        (IF r.min[k] >= v.min[k] THEN r.min[k] ELSE v.min[k])
            <= (IF r.max[k] <= v.max[k] THEN r.max[k] ELSE v.max[k])

\* The indices of the input volumes whose box shares a point with r, ascending.
OverlapSeq(r) ==
    SelectSeq([i \in 1..Len(volumes) |-> i], LAMBDA i : BoxesIntersect(r, volumes[i]))

Region(f) == [min |-> f.min_bound, max |-> f.max_bound]

SubRegion(f, i) == [min |-> f.subregions_min[i], max |-> f.subregions_max[i]]

Subdivided(f) == f.subregions_min # <<>>

Extent(r) == (r.max[1] - r.min[1]) + (r.max[2] - r.min[2]) + (r.max[3] - r.min[3])

InsideRegion(c, r) == \A k \in Axes : r.min[k] <= c.min[k] /\ c.max[k] <= r.max[k]

PointIn(p, r) == \A k \in Axes : r.min[k] <= p[k] /\ p[k] <= r.max[k]

PointsOf(r) == (r.min[1]..r.max[1]) \X (r.min[2]..r.max[2]) \X (r.min[3]..r.max[3])

ShareInterior(a, b) ==
    \A k \in Axes :
        (IF a.min[k] >= b.min[k] THEN a.min[k] ELSE b.min[k])
            < (IF a.max[k] <= b.max[k] THEN a.max[k] ELSE b.max[k])

SpanOnEveryAxis == \A k \in Axes : CombinedMin(k) # CombinedMax(k)

SpanOnSomeAxis == \E k \in Axes : CombinedMin(k) # CombinedMax(k)

\* The depth bound cuts only a chain that never ends: the frame that cannot
\* call is a one-point region whose caller had the same region and the same
\* overlapping volumes.
OverflowIsInfiniteRecursion ==
    pc = "overflow" =>
        /\ Top.min_bound = Top.max_bound
        /\ Region(stack[Len(stack) - 1]) = Region(Top)
        /\ stack[Len(stack) - 1].volumes_inside_cell = Top.volumes_inside_cell

\* C1: for a non-empty input with non-zero span on every axis the build
\* terminates: every subdivision hands its children regions strictly smaller
\* than its own, and the chain of calls never outgrows the stack.
C1_BuildTerminates ==
    (volumes # <<>> /\ SpanOnEveryAxis) =>
        /\ pc # "overflow"
        /\ \A j \in DOMAIN stack :
              Subdivided(stack[j]) =>
                  \A i \in 1..8 : Extent(SubRegion(stack[j], i)) < Extent(Region(stack[j]))

\* C2: the 8 regions a subdividing call hands to its children partition its
\* own region: each lies inside it, together they cover it, and no two share
\* interior.
C2_ChildrenPartitionParent ==
    \A j \in DOMAIN stack :
        Subdivided(stack[j]) =>
            /\ \A i \in 1..8 : InsideRegion(SubRegion(stack[j], i), Region(stack[j]))
            /\ \A p \in PointsOf(Region(stack[j])) :
                  \E i \in 1..8 : PointIn(p, SubRegion(stack[j], i))
            /\ \A i \in 1..8 : \A h \in 1..8 :
                  i # h => ~ShareInterior(SubRegion(stack[j], i), SubRegion(stack[j], h))

\* C3: child i (0..7) is built for the octant the bits of i choose: bit 0 for
\* x, bit 1 for y, bit 2 for z; a 0 bit is the lower half [region_min, m] and
\* a 1 bit the upper half [m, region_max] of that axis, m the midpoint.
C3_ChildIsOctantOfItsBits ==
    \A j \in DOMAIN stack :
        Subdivided(stack[j]) =>
            \A i \in 0..7 : \A k \in Axes :
                LET lo == stack[j].min_bound[k]
                    hi == stack[j].max_bound[k]
                    m == (lo + hi) \div 2
                    bit == (i \div (2 ^ (k - 1))) % 2
                    c == SubRegion(stack[j], i + 1)
                IN IF bit = 0
                   THEN c.min[k] = lo /\ c.max[k] = m
                   ELSE c.min[k] = m /\ c.max[k] = hi

\* C4: the payload of a Filled cell is exactly the input volumes whose box
\* overlaps the cell's region, in input order, and the region of an
\* Empty-childless cell overlaps no input volume.
C4_PayloadIsOverlapSet ==
    \A c \in DOMAIN cell_arena :
        /\ cell_arena[c].kind = "FilledCell" =>
              vec_arena[cell_arena[c].vec] = OverlapSeq(cell_region[c])
        /\ cell_arena[c].kind = "EmptyChildlessCell" =>
              OverlapSeq(cell_region[c]) = <<>>

C4_Witness ==
    /\ pc = "done"
    /\ \E c \in DOMAIN cell_arena :
          /\ cell_arena[c].kind = "FilledCell"
          /\ Len(vec_arena[cell_arena[c].vec]) < Len(volumes)
          /\ vec_arena[cell_arena[c].vec][1] > 1
    /\ \E c \in DOMAIN cell_arena : cell_arena[c].kind = "EmptyChildlessCell"

\* C5: the number n of input volumes overlapping a cell's region decides its
\* variant: n >= 8 Empty-with-children, n = 0 Empty-childless, 1 <= n < 8
\* Filled; a Filled cell holds between 1 and 8 volumes.
C5_VariantByOverlapCount ==
    \A c \in DOMAIN cell_arena :
        LET n == Len(OverlapSeq(cell_region[c]))
            kind == cell_arena[c].kind
        IN /\ (kind = "EmptyCell") = (n >= 8)
           /\ (kind = "EmptyChildlessCell") = (n = 0)
           /\ (kind = "FilledCell") = (1 <= n /\ n < 8)
           /\ kind = "EmptyCell" => Len(cell_arena[c].children) = 8
           /\ kind = "FilledCell" =>
                 /\ Len(vec_arena[cell_arena[c].vec]) >= 1
                 /\ Len(vec_arena[cell_arena[c].vec]) <= 8

C5_Witness ==
    /\ pc = "done"
    /\ \E c \in DOMAIN cell_arena :
          /\ cell_arena[c].kind = "EmptyCell"
          /\ Len(OverlapSeq(cell_region[c])) = 8
    /\ \E c \in DOMAIN cell_arena :
          /\ cell_arena[c].kind = "FilledCell"
          /\ Len(vec_arena[cell_arena[c].vec]) = 7
    /\ \E c \in DOMAIN cell_arena : cell_arena[c].kind = "EmptyChildlessCell"

\* C6: an input whose combined bound has zero span on at least one axis makes
\* Octree::new fail at the assertion, before any call of build_recursively and
\* with no cell allocated, also when the other axes have span (the case
\* stated here: with no span on any axis the assertion does fail, in a build
\* that compiles it in).
C6_ZeroSpanAxisFailsFast ==
    (pc # "new" /\ SpanOnSomeAxis
        /\ \E k \in Axes : CombinedMin(k) = CombinedMax(k)) =>
            /\ pc = "panicked"
            /\ stack = <<>>
            /\ cell_arena = <<>>

\* C7: for 1 to 7 input volumes whose combined bound has span, Octree::new
\* subdivides nothing and returns one Filled root cell holding every input
\* volume.
C7_FewVolumesGiveFilledRoot ==
    (Len(volumes) \in 1..7 /\ SpanOnSomeAxis /\ pc # "new") =>
        /\ pc \in {"building", "done"}
        /\ pc = "building" =>
              /\ Len(stack) = 1
              /\ ~Subdivided(stack[1])
              /\ stack[1].volumes_inside_cell = [i \in 1..Len(volumes) |-> i]
              /\ cell_arena = <<>>
        /\ pc = "done" =>
              /\ Len(cell_arena) = 1
              /\ root_cell = 1
              /\ cell_arena[1].kind = "FilledCell"
              /\ vec_arena[cell_arena[1].vec] = [i \in 1..Len(volumes) |-> i]

C7_Witness ==
    /\ pc = "done"
    /\ volumes = <<Box(<<0, 0, 0>>, <<1, 1, 1>>), Box(<<5, 5, 5>>, <<6, 6, 6>>)>>
    /\ min_bound = <<0, 0, 0>>
    /\ max_bound = <<6, 6, 6>>
    /\ cell_arena[root_cell].kind = "FilledCell"
    /\ vec_arena[cell_arena[root_cell].vec] = <<1, 2>>

\* The corners that can be common to 8 volumes: a set of boxes with a common
\* point has the componentwise largest of its min corners in common.
CornerPoints ==
    {volumes[i].min[1] : i \in DOMAIN volumes}
        \X {volumes[i].min[2] : i \in DOMAIN volumes}
        \X {volumes[i].min[3] : i \in DOMAIN volumes}

EightShareAPoint ==
    \E p \in CornerPoints :
        Cardinality({i \in DOMAIN volumes : PointIn(p, volumes[i])}) >= 8

\* C8: when at least 8 input volumes share a point, the tree Octree::new
\* returns has an Empty-with-children root and at least one Filled leaf.
C8_SharedPointGivesFilledLeaf ==
    (pc = "done" /\ EightShareAPoint) =>
        /\ cell_arena[root_cell].kind = "EmptyCell"
        /\ \E c \in DOMAIN cell_arena : cell_arena[c].kind = "FilledCell"

\* C9: on every axis the root region's min_bound and max_bound are even, lie
\* at or beyond the zero-seeded minimum and maximum of the volumes' corners,
\* at most 1 beyond, and the midpoint of the root region is exact.
C9_RootBoundsEvenAndEnclosing ==
    pc \in {"building", "done", "overflow"} =>
        \A k \in Axes :
            /\ min_bound[k] % 2 = 0
            /\ max_bound[k] % 2 = 0
            /\ min_bound[k] \in {CombinedMin(k), CombinedMin(k) - 1}
            /\ max_bound[k] \in {CombinedMax(k), CombinedMax(k) + 1}
            /\ \A i \in DOMAIN volumes :
                  min_bound[k] <= volumes[i].min[k] /\ volumes[i].max[k] <= max_bound[k]
            /\ min_bound[k] <= 0 /\ 0 <= max_bound[k]
            /\ 2 * Midpoint(min_bound, max_bound)[k] = min_bound[k] + max_bound[k]

C9_Witness ==
    /\ pc = "done"
    /\ \E k \in Axes :
          /\ CombinedMin(k) < 0
          /\ CombinedMin(k) % 2 = 1
          /\ min_bound[k] = CombinedMin(k) - 1
    /\ \E k \in Axes :
          /\ CombinedMax(k) % 2 = 1
          /\ max_bound[k] = CombinedMax(k) + 1

\* C10: every input volume that overlaps the region of a child call overlaps
\* the region of the subdividing call too, and filtering only the caller's
\* volumes_inside_cell gives the child the same volumes_inside_cell as
\* filtering the whole input does.
C10_OverlapMonotonicDownTheTree ==
    \A j \in DOMAIN stack :
        j > 1 =>
            /\ \A i \in DOMAIN volumes :
                  BoxesIntersect(Region(stack[j]), volumes[i]) =>
                      BoxesIntersect(Region(stack[j - 1]), volumes[i])
            /\ stack[j].volumes_inside_cell =
                  SelectSeq(stack[j - 1].volumes_inside_cell,
                            LAMBDA i : Overlaps(stack[j].min_bound, stack[j].max_bound,
                                                volumes[i]))

C10_Witness ==
    /\ Len(stack) >= 3
    /\ Len(stack[2].volumes_inside_cell) < Len(volumes)
    /\ Top.volumes_inside_cell # <<>>
    /\ ~InsideRegion(Region(Top), Region(stack[Len(stack) - 1]))

====
